---- MODULE Spec2Model ----
(***************************************************************************)
(* HPPCalc: the costing engine (calculateHPP) of lib/hpp-calculator, the   *)
(* sales forecast (calculateForecast) of lib/forecast and the fetches of   *)
(* lib/store they are computed from.                                       *)
(*                                                                         *)
(* JavaScript numbers are modelled as exact fractions n/d extended with    *)
(* the IEEE-754 special values the code can produce by dividing by zero:   *)
(*   d > 0          the finite number n/d (gcd-normalised)                 *)
(*   n = 1,  d = 0  +Infinity                                              *)
(*   n = -1, d = 0  -Infinity                                              *)
(*   n = 0,  d = 0  NaN                                                    *)
(* Finite arithmetic is exact: binary rounding of doubles is not modelled. *)
(***************************************************************************)
EXTENDS Integers, Sequences, FiniteSets, TLC

VARIABLES product, overrides, materials, overheads, laborRates, pc, result

\* the call of calculateForecast: the fetched products and sales, the clock,
\* the time zone of the runtime and the three arguments
VARIABLES products, sales, now, tzOffset, productId, horizonDays, safetyDays

hppVars == <<product, overrides, overheads, laborRates>>

forecastVars == <<products, sales, now, tzOffset, productId, horizonDays, safetyDays>>

\* the store: the rows of its tables, the rows they held when the running
\* call started, and the engine that is being called
VARIABLES db, db0, op

storeVars == <<db, db0, op>>

\* the points handed to linearRegression; the product form (Products page)
\* and the product it edits; the concurrent callers of the seeding fetches;
\* the calculateForecast calls started by the Forecast page; the arguments
\* of updateProduct
VARIABLES points, formData, editingProduct, getters, calls, updates

pageVars == <<points, formData, editingProduct, getters, calls, updates>>

vars == <<hppVars, forecastVars, storeVars, pageVars, materials, pc, result>>

(***************************************************************************)
(* Numbers                                                                 *)
(***************************************************************************)
Abs(i) == IF i < 0 THEN -i ELSE i

Sign(i) == IF i < 0 THEN -1 ELSE IF i > 0 THEN 1 ELSE 0

RECURSIVE Gcd(_, _)
Gcd(a, b) == IF b = 0 THEN a ELSE Gcd(b, a % b)

\* the finite number n/d, d # 0, in lowest terms with a positive denominator
Frac(n, d) ==
    LET g == Gcd(Abs(n), Abs(d))
        s == IF d < 0 THEN -1 ELSE 1
    IN  [n |-> s * (n \div g), d |-> s * (d \div g)]

Num(i) == [n |-> i, d |-> 1]

PosInf == [n |-> 1, d |-> 0]
NegInf == [n |-> -1, d |-> 0]
NaN == [n |-> 0, d |-> 0]

IsNaN(x) == x.d = 0 /\ x.n = 0
IsInf(x) == x.d = 0 /\ x.n # 0
IsFinite(x) == x.d > 0
IsZero(x) == x.d > 0 /\ x.n = 0
SignOf(x) == Sign(x.n)

\* x + y
Add(x, y) ==
    IF IsNaN(x) \/ IsNaN(y) THEN NaN
    ELSE IF IsInf(x) /\ IsInf(y) THEN (IF x.n = y.n THEN x ELSE NaN)
    ELSE IF IsInf(x) THEN x
    ELSE IF IsInf(y) THEN y
    ELSE LET g == Gcd(x.d, y.d)
         IN  Frac(x.n * (y.d \div g) + y.n * (x.d \div g), (x.d \div g) * y.d)

Neg(x) == [n |-> -x.n, d |-> x.d]

\* x - y
Sub(x, y) == Add(x, Neg(y))

\* x * y
Mul(x, y) ==
    IF IsNaN(x) \/ IsNaN(y) THEN NaN
    ELSE IF IsInf(x) \/ IsInf(y)
         THEN (IF IsZero(x) \/ IsZero(y) THEN NaN
               ELSE IF SignOf(x) * SignOf(y) > 0 THEN PosInf ELSE NegInf)
    ELSE LET g1 == Gcd(Abs(x.n), y.d)
             g2 == Gcd(Abs(y.n), x.d)
         IN  Frac((x.n \div g1) * (y.n \div g2), (x.d \div g2) * (y.d \div g1))

\* x / y, with the IEEE-754 results of a division by zero (zeros are +0)
Div(x, y) ==
    IF IsNaN(x) \/ IsNaN(y) THEN NaN
    ELSE IF IsInf(x) /\ IsInf(y) THEN NaN
    ELSE IF IsInf(x) THEN (IF SignOf(x) * (IF SignOf(y) < 0 THEN -1 ELSE 1) > 0
                           THEN PosInf ELSE NegInf)
    ELSE IF IsInf(y) THEN Num(0)
    ELSE IF IsZero(y) THEN (IF IsZero(x) THEN NaN
                            ELSE IF SignOf(x) > 0 THEN PosInf ELSE NegInf)
    ELSE Mul(x, Frac(y.d, y.n))

\* x < y and x <= y as JavaScript evaluates them (false when either is NaN)
Lt(x, y) ==
    IF IsNaN(x) \/ IsNaN(y) THEN FALSE
    ELSE IF IsInf(x) /\ IsInf(y) THEN x.n < y.n
    ELSE IF IsInf(x) THEN x.n < 0
    ELSE IF IsInf(y) THEN y.n > 0
    ELSE x.n * y.d < y.n * x.d

Leq(x, y) == ~IsNaN(x) /\ ~IsNaN(y) /\ ~Lt(y, x)

\* Math.ceil
Ceil(x) == IF x.d = 0 THEN x ELSE Num(-((-x.n) \div x.d))

\* Math.round (half up)
Round(x) == IF x.d = 0 THEN x ELSE Num((2 * x.n + x.d) \div (2 * x.d))

(***************************************************************************)
(* Optional values and arrays                                              *)
(***************************************************************************)
\* undefined is the empty sequence, a present value v the sequence <<v>>
Undefined == <<>>
Some(v) == <<v>>
IsDefined(o) == o # <<>>

\* Coalesce as a || b: a present 0 or NaN gives way to b as well
CoalesceTruthy(o, b) == IF IsDefined(o) /\ ~IsZero(o[1]) /\ ~IsNaN(o[1]) THEN o[1] ELSE b

\* a ?? b
Coalesce(o, b) == IF IsDefined(o) THEN o[1] ELSE b

\* Array.prototype.find: the first element of s that passes the test, if any;
\* the test is given as the set of the values that pass it
RECURSIVE FindFrom(_, _, _)
FindFrom(s, passing, i) ==
    IF i > Len(s) THEN Undefined
    ELSE IF s[i] \in passing THEN Some(s[i])
    ELSE FindFrom(s, passing, i + 1)

Find(s, passing) == FindFrom(s, passing, 1)

\* the elements of the array s
Range(s) == {s[i] : i \in 1..Len(s)}

(***************************************************************************)
(* calculateHPP                                                            *)
(***************************************************************************)
DEFAULT_MARGIN == 30

DEFAULT_MONTHLY_PRODUCTION == 500

FALLBACK_WAGE == 20000

\* MaterialLine with an unresolved material costed at its quantity
MaterialLineUnknownCosted(ingredient, yieldPerBatch, mats, materialPrices) ==
    LET material == Find(mats, {m \in Range(mats) : m.id = ingredient.materialId})
    IN  IF ~IsDefined(material)
        THEN [name |-> "Unknown Material", quantity |-> ingredient.quantity,
              unit |-> "pcs", pricePerUnit |-> Num(1), total |-> ingredient.quantity]
        ELSE LET priceOverride ==
                     IF IsDefined(materialPrices)
                     THEN Find(materialPrices[1],
                               {p \in Range(materialPrices[1]) :
                                    p.materialId = ingredient.materialId})
                     ELSE Undefined
                 pricePerUnit ==
                     IF IsDefined(priceOverride) THEN priceOverride[1].pricePerUnit
                     ELSE material[1].pricePerUnit
                 quantityPerUnit == Div(ingredient.quantity, yieldPerBatch)
             IN  [name |-> material[1].name, quantity |-> quantityPerUnit,
                  unit |-> material[1].unit, pricePerUnit |-> pricePerUnit,
                  total |-> Mul(quantityPerUnit, pricePerUnit)]

\* one element of product.ingredients.map(...)
MaterialLine(ingredient, yieldPerBatch, mats, materialPrices) ==
    LET material == Find(mats, {m \in Range(mats) : m.id = ingredient.materialId})
    IN  IF ~IsDefined(material)
        THEN [name |-> "Unknown Material", quantity |-> ingredient.quantity,
              unit |-> "pcs", pricePerUnit |-> Num(0), total |-> Num(0)]
        ELSE LET priceOverride ==
                     IF IsDefined(materialPrices)
                     THEN Find(materialPrices[1],
                               {p \in Range(materialPrices[1]) :
                                    p.materialId = ingredient.materialId})
                     ELSE Undefined
                 pricePerUnit ==
                     IF IsDefined(priceOverride) THEN priceOverride[1].pricePerUnit
                     ELSE material[1].pricePerUnit
                 quantityPerUnit == Div(ingredient.quantity, yieldPerBatch)
             IN  [name |-> material[1].name, quantity |-> quantityPerUnit,
                  unit |-> material[1].unit, pricePerUnit |-> pricePerUnit,
                  total |-> Mul(quantityPerUnit, pricePerUnit)]

MaterialDetails(prod, mats, materialPrices) ==
    [i \in 1..Len(prod.ingredients) |->
        MaterialLine(prod.ingredients[i], prod.yieldPerBatch, mats, materialPrices)]

\* materialDetails.reduce((sum, m) => sum + m.total, 0)
RECURSIVE SumTotalsFrom(_, _, _)
SumTotalsFrom(details, i, sum) ==
    IF i > Len(details) THEN sum
    ELSE SumTotalsFrom(details, i + 1, Add(sum, details[i].total))

\* MaterialsTotal with the reducer returning m.total instead of sum + m.total
MaterialsTotalLast(details) ==
    IF Len(details) = 0 THEN Num(0) ELSE details[Len(details)].total

MaterialsTotal(details) == SumTotalsFrom(details, 1, Num(0))

\* SelectLaborRate with an unresolved id falling back to the first rate
SelectLaborRateOrFirst(rates, laborRateId) ==
    LET found == IF IsDefined(laborRateId)
                 THEN Find(rates, {r \in Range(rates) : r.id = laborRateId[1]})
                 ELSE Undefined
    IN  IF IsDefined(found) THEN found
        ELSE IF Len(rates) > 0 THEN Some(rates[1]) ELSE Undefined

\* overrides.laborRateId ? laborRates.find(...) : laborRates[0]
\* (an empty string is falsy, like undefined)
SelectLaborRate(rates, laborRateId) ==
    IF IsDefined(laborRateId) /\ laborRateId[1] # ""
    THEN Find(rates, {r \in Range(rates) : r.id = laborRateId[1]})
    ELSE IF Len(rates) > 0 THEN Some(rates[1]) ELSE Undefined

WagePerMinute(laborRate) ==
    Div(IF IsDefined(laborRate) THEN laborRate[1].wagePerHour ELSE Num(FALLBACK_WAGE),
        Num(60))

LaborCost(rates, laborRateId, laborMinutes) ==
    Mul(WagePerMinute(SelectLaborRate(rates, laborRateId)), laborMinutes)

\* OverheadStep with 'per_unit' assigning (=) instead of accumulating (+=)
OverheadStepAssign(overheadCost, overhead, materialsTotal, laborCost, monthlyProduction) ==
    CASE overhead.allocationType = "fixed" ->
             Add(overheadCost, Div(overhead.amount, monthlyProduction))
      [] overhead.allocationType = "per_unit" ->
             overhead.amount
      [] overhead.allocationType = "percentage" ->
             Add(overheadCost,
                 Mul(Add(materialsTotal, laborCost), Div(overhead.amount, Num(100))))
      [] OTHER -> overheadCost

\* OverheadStep with the percentage taken of the running total, overhead included
OverheadStepRunningTotal(overheadCost, overhead, materialsTotal, laborCost, monthlyProduction) ==
    CASE overhead.allocationType = "fixed" ->
             Add(overheadCost, Div(overhead.amount, monthlyProduction))
      [] overhead.allocationType = "per_unit" ->
             Add(overheadCost, overhead.amount)
      [] overhead.allocationType = "percentage" ->
             Add(overheadCost,
                 Mul(Add(Add(materialsTotal, laborCost), overheadCost),
                     Div(overhead.amount, Num(100))))
      [] OTHER -> overheadCost

\* the body of the switch: the new value of overheadCost after one rule
OverheadStep(overheadCost, overhead, materialsTotal, laborCost, monthlyProduction) ==
    CASE overhead.allocationType = "fixed" ->
             Add(overheadCost, Div(overhead.amount, monthlyProduction))
      [] overhead.allocationType = "per_unit" ->
             Add(overheadCost, overhead.amount)
      [] overhead.allocationType = "percentage" ->
             Add(overheadCost,
                 Mul(Add(materialsTotal, laborCost), Div(overhead.amount, Num(100))))
      [] OTHER -> overheadCost

\* let overheadCost = 0; overheads.forEach(...)
RECURSIVE OverheadFrom(_, _, _, _, _, _)
OverheadFrom(ovs, i, overheadCost, materialsTotal, laborCost, monthlyProduction) ==
    IF i > Len(ovs) THEN overheadCost
    ELSE OverheadFrom(ovs, i + 1,
             OverheadStep(overheadCost, ovs[i], materialsTotal, laborCost,
                          monthlyProduction),
             materialsTotal, laborCost, monthlyProduction)

OverheadCost(ovs, materialsTotal, laborCost, monthlyProduction) ==
    OverheadFrom(ovs, 1, Num(0), materialsTotal, laborCost, monthlyProduction)

\* HppPerUnit with the overhead left out
HppWithoutOverhead(materialsTotal, laborCost, overheadCost) ==
    Add(materialsTotal, laborCost)

HppPerUnit(materialsTotal, laborCost, overheadCost) ==
    Add(Add(materialsTotal, laborCost), overheadCost)

\* hppPerUnit / (1 - marginPercent / 100)
PriceWithMargin(hppPerUnit, marginPercent) ==
    Div(hppPerUnit, Sub(Num(1), Div(marginPercent, Num(100))))

\* RoundUp100 with Math.round in place of Math.ceil
RoundNearest100(price) == Mul(Round(Div(price, Num(100))), Num(100))

\* Math.ceil(suggestedPrice / 100) * 100
RoundUp100(price) == Mul(Ceil(Div(price, Num(100))), Num(100))

calculateHPP(prod, ovr, mats, ovs, rates) ==
    LET marginPercent == Coalesce(ovr.marginPercent, Num(DEFAULT_MARGIN))
        monthlyProduction ==
            Coalesce(ovr.monthlyProduction, Num(DEFAULT_MONTHLY_PRODUCTION))
        laborMinutes == Coalesce(ovr.laborMinutes, prod.laborMinutes)
        materialDetails == MaterialDetails(prod, mats, ovr.materialPrices)
        materialsTotal == MaterialsTotal(materialDetails)
        laborCost == LaborCost(rates, ovr.laborRateId, laborMinutes)
        overheadCost == OverheadCost(ovs, materialsTotal, laborCost, monthlyProduction)
        hppPerUnit == HppPerUnit(materialsTotal, laborCost, overheadCost)
        suggestedPrice == PriceWithMargin(hppPerUnit, marginPercent)
    IN  [productId |-> prod.id,
         productName |-> prod.name,
         breakdown |-> [materialsTotal |-> materialsTotal,
                        materialDetails |-> materialDetails,
                        laborCost |-> laborCost,
                        overheadCost |-> overheadCost,
                        hppPerUnit |-> hppPerUnit],
         suggestedPrice |-> RoundUp100(suggestedPrice),
         marginPercent |-> marginPercent]

(***************************************************************************)
(* Inputs of a call                                                        *)
(***************************************************************************)
\* a call reads at most MaxRows ingredient rows and overhead rows together
MaxRows == 3

\* all sequences over S of length at most n
SeqsUpTo(S, n) == UNION {[1..k -> S] : k \in 0..n}

\* the rows getMaterials returns (ordered by name)
Mentega == [id |-> "m1", name |-> "Mentega", unit |-> "g",
            pricePerUnit |-> Num(80), stockAmount |-> Num(5000)]

Telur == [id |-> "m2", name |-> "Telur", unit |-> "pcs",
          pricePerUnit |-> Num(2500), stockAmount |-> Num(200)]

\* (getMaterials returns [] when the fetch fails)
MaterialTables == {<<>>, <<Mentega, Telur>>}

Baker == [id |-> "r1", name |-> "Baker", wagePerHour |-> Num(25000)]

Helper == [id |-> "r2", name |-> "Helper", wagePerHour |-> Num(15000)]

LaborRateTables == {<<>>, <<Baker, Helper>>}

\* "mx" is the id of no material: an unresolved reference
IngredientChoices ==
    {[materialId |-> "m1", quantity |-> Num(250)],
     [materialId |-> "m2", quantity |-> Num(3)],
     [materialId |-> "mx", quantity |-> Num(100)],
     [materialId |-> "m1", quantity |-> Num(-100)]}

OverheadChoices ==
    {[name |-> "Listrik", amount |-> Num(500000), allocationType |-> "fixed"],
     [name |-> "Packaging", amount |-> Num(500), allocationType |-> "per_unit"],
     [name |-> "Admin", amount |-> Num(10), allocationType |-> "percentage"]}

Products ==
    {[id |-> "p1", name |-> "Roti", yieldPerBatch |-> y, laborMinutes |-> Num(30),
      ingredients |-> ings] :
        y \in {Num(0), Num(10)}, ings \in SeqsUpTo(IngredientChoices, MaxRows)}

NoOverrides ==
    [materialPrices |-> Undefined, laborMinutes |-> Undefined,
     laborRateId |-> Undefined, marginPercent |-> Undefined,
     monthlyProduction |-> Undefined]

\* a call overrides at most one field
OverrideChoices ==
    {NoOverrides}
    \cup {[NoOverrides EXCEPT !.marginPercent = Some(m)] :
            m \in {Num(0), Num(99), Num(100), Num(150)}}
    \cup {[NoOverrides EXCEPT !.monthlyProduction = Some(mp)] :
            mp \in {Num(0), Num(1000)}}
    \cup {[NoOverrides EXCEPT !.laborMinutes = Some(lm)] : lm \in {Num(0), Num(45)}}
    \cup {[NoOverrides EXCEPT !.laborRateId = Some(id)] : id \in {"", "r2", "rx"}}
    \cup {[NoOverrides EXCEPT !.materialPrices = Some(mp)] :
            mp \in {<<[materialId |-> "m1", pricePerUnit |-> Num(0)]>>,
                    <<[materialId |-> "m2", pricePerUnit |-> Num(3000)],
                      [materialId |-> "m2", pricePerUnit |-> Num(1)]>>}}

(***************************************************************************)
(* The costing state machine: a call of calculateHPP(product, overrides)   *)
(* against the tables the three fetches return.                            *)
(***************************************************************************)
\* the overrides that bear on the labor cost
IsLaborOverride(ovr) == IsDefined(ovr.laborMinutes) \/ IsDefined(ovr.laborRateId)

\* the calls of SpecHPP and SpecForecast are computed from fetched rows: the
\* store itself is left out of them
NoStore ==
    /\ db = [materials |-> {}, overheads |-> {}, labor_rates |-> {},
             products |-> {}, sales |-> {}]
    /\ db0 = db
    /\ op = "none"

\* the product form as useState initialises it; a text typed into the form is
\* the sequence of its characters (the description, saved as typed, is left out)
EmptyForm ==
    [name |-> <<>>, yieldPerBatch |-> Num(1), laborMinutes |-> Num(30), ingredients |-> <<>>]

\* no page is open and no other call is under way
NoPages ==
    /\ points = <<>>
    /\ formData = EmptyForm
    /\ editingProduct = Undefined
    /\ getters = <<>>
    /\ calls = <<>>
    /\ updates = Undefined

\* no call of calculateForecast is under way
NoForecastCall ==
    /\ products = <<>>
    /\ sales = <<>>
    /\ now = 0
    /\ tzOffset = 0
    /\ productId = ""
    /\ horizonDays = 0
    /\ safetyDays = Num(0)

\* An empty labor-rate table (getLaborRates returns [] when the fetch fails) is
\* called with no override or a labor override, a zero yield with no override
\* or an override that does not bear on labor, an empty materials table with
\* no override or a price override.
InitHPP ==
    /\ product \in Products
    /\ overrides \in OverrideChoices
    /\ materials \in MaterialTables
    /\ overheads \in SeqsUpTo(OverheadChoices, MaxRows - Len(product.ingredients))
    /\ laborRates \in LaborRateTables
    /\ laborRates = <<>> =>
          /\ overrides = NoOverrides \/ IsLaborOverride(overrides)
          /\ ~IsZero(product.yieldPerBatch)
    /\ IsZero(product.yieldPerBatch) => ~IsLaborOverride(overrides)
    /\ materials = <<>> =>
          /\ overrides = NoOverrides \/ IsDefined(overrides.materialPrices)
          /\ ~IsZero(product.yieldPerBatch)
          /\ laborRates # <<>>
    /\ pc = "idle"
    /\ result = Undefined
    /\ NoForecastCall
    /\ NoStore
    /\ NoPages

CalculateHPP ==
    /\ pc = "idle"
    /\ result' = Some(calculateHPP(product, overrides, materials, overheads, laborRates))
    /\ pc' = "done"
    /\ UNCHANGED <<hppVars, forecastVars, storeVars, pageVars, materials>>

NextHPP == CalculateHPP

SpecHPP == InitHPP /\ [][NextHPP]_vars

(***************************************************************************)
(* Properties of calculateHPP                                              *)
(***************************************************************************)
Done == pc = "done"

Res == result[1]

\* the permutations of 1..n, and a sequence reordered by one
Perms(n) == {f \in [1..n -> 1..n] : \A i, j \in 1..n : f[i] = f[j] => i = j}

Permute(s, f) == [i \in 1..Len(s) |-> s[f[i]]]

Resolves(ingredient) == \E m \in Range(materials) : m.id = ingredient.materialId

IsMultipleOf100(x) == x.d = 1 /\ x.n % 100 = 0

\* 1 - marginPercent / 100 of the finished call
KeptShare == Sub(Num(1), Div(Res.marginPercent, Num(100)))

MarginInRange == Leq(Num(0), Res.marginPercent) /\ Leq(Res.marginPercent, Num(99))

WithOverheads(f) ==
    calculateHPP(product, overrides, materials, Permute(overheads, f), laborRates)

HasPercentage == \E o \in Range(overheads) : o.allocationType = "percentage"

HasOtherThanPercentage == \E o \in Range(overheads) : o.allocationType # "percentage"

\* the claim's example: two 10% percentage overheads mixed with other entries
TwoTenPercentAmongOthers ==
    /\ \E i, j \in 1..Len(overheads) :
          /\ i # j
          /\ overheads[i].allocationType = "percentage"
          /\ overheads[j].allocationType = "percentage"
          /\ overheads[i].amount = Num(10) /\ overheads[j].amount = Num(10)
    /\ HasOtherThanPercentage

C3_MarginFallback ==
    (Done /\ Leq(Num(100), Res.marginPercent)) =>
        IsFinite(Res.suggestedPrice) /\ Leq(Num(0), Res.suggestedPrice)

\* C4: with yieldPerBatch = 0 and a resolvable ingredient the division is
\* guarded: every materialDetails line, materialsTotal and hppPerUnit are finite.
C4_ZeroYieldGuarded ==
    (Done /\ IsZero(product.yieldPerBatch)
          /\ \E ing \in Range(product.ingredients) : Resolves(ing)) =>
        /\ \A line \in Range(Res.breakdown.materialDetails) :
              IsFinite(line.quantity) /\ IsFinite(line.total)
        /\ IsFinite(Res.breakdown.materialsTotal)
        /\ IsFinite(Res.breakdown.hppPerUnit)

\* C5: with an empty ingredient list materialsTotal = 0, materialDetails is
\* empty and hppPerUnit = laborCost + overheadCost.
C5_EmptyIngredients ==
    (Done /\ product.ingredients = <<>>) =>
        /\ Res.breakdown.materialsTotal = Num(0)
        /\ Res.breakdown.materialDetails = <<>>
        /\ Res.breakdown.hppPerUnit =
               Add(Res.breakdown.laborCost, Res.breakdown.overheadCost)

C5_Witness ==
    /\ Done /\ product.ingredients = <<>>
    /\ Lt(Num(0), Res.breakdown.laborCost)
    /\ Lt(Num(0), Res.breakdown.overheadCost)
    /\ IsFinite(Res.breakdown.hppPerUnit)

\* the result of the same call for the product with its ingredients replaced
WithIngredients(ings) ==
    calculateHPP([product EXCEPT !.ingredients = ings], overrides, materials,
                 overheads, laborRates)

Contribution(o) ==
    LET monthlyProduction ==
            IF overrides.monthlyProduction = Undefined
            THEN Num(DEFAULT_MONTHLY_PRODUCTION) ELSE overrides.monthlyProduction[1]
        base == Add(Res.breakdown.materialsTotal, Res.breakdown.laborCost)
    IN  IF o.allocationType = "fixed" THEN Div(o.amount, monthlyProduction)
        ELSE IF o.allocationType = "per_unit" THEN o.amount
        ELSE Mul(Div(o.amount, Num(100)), base)

\* the sum of the contributions of the rules i..Len(overheads), last rule first
RECURSIVE ContributionsFrom(_)
ContributionsFrom(i) ==
    IF i > Len(overheads) THEN Num(0)
    ELSE Add(Contribution(overheads[i]), ContributionsFrom(i + 1))

\* C7: overheadCost is the sum over all rules of amount / monthlyProduction
\* ('fixed'), amount ('per_unit') and (amount/100) * (materialsTotal + laborCost)
\* ('percentage'): the base of a percentage rule never includes earlier overhead.
C7_OverheadIsSumOfContributions ==
    Done => Res.breakdown.overheadCost = ContributionsFrom(1)

\* a percentage rule that follows a rule with a non-zero contribution
C7_Witness ==
    /\ Done
    /\ \E i, j \in 1..Len(overheads) :
          /\ i < j
          /\ overheads[j].allocationType = "percentage"
          /\ IsFinite(Contribution(overheads[i])) /\ ~IsZero(Contribution(overheads[i]))
    /\ IsFinite(Res.breakdown.overheadCost)
    /\ ~IsZero(Add(Res.breakdown.materialsTotal, Res.breakdown.laborCost))

\* the ingredients that satisfy the test, in order
ResolvedIngredients == SelectSeq(product.ingredients, Resolves)

\* C8: an ingredient whose materialId is not in the materials snapshot yields
\* exactly one line 'Unknown Material' with pricePerUnit 0 and total 0 and adds
\* nothing to materialsTotal; materialDetails has one line per ingredient, in
\* ingredient order.
C8_UnknownMaterialLine ==
    Done =>
        /\ Len(Res.breakdown.materialDetails) = Len(product.ingredients)
        /\ \A i \in 1..Len(product.ingredients) :
              LET ing == product.ingredients[i]
                  line == Res.breakdown.materialDetails[i]
              IN  IF Resolves(ing)
                  THEN \E m \in Range(materials) :
                          m.id = ing.materialId /\ line.name = m.name
                  ELSE /\ line.name = "Unknown Material"
                       /\ line.pricePerUnit = Num(0)
                       /\ line.total = Num(0)
        /\ Res.breakdown.materialsTotal =
               WithIngredients(ResolvedIngredients).breakdown.materialsTotal

\* an unresolved ingredient next to a resolved one with a cost
C8_Witness ==
    /\ Done
    /\ \E i, j \in 1..Len(product.ingredients) :
          /\ ~Resolves(product.ingredients[i])
          /\ Resolves(product.ingredients[j])
    /\ IsFinite(Res.breakdown.materialsTotal)
    /\ Lt(Num(0), Res.breakdown.materialsTotal)

PositiveQuantity(ingredient) == Lt(Num(0), ingredient.quantity)

\* C9: ingredients of quantity <= 0 are excluded from the cost: materialsTotal
\* equals the materialsTotal of the product with those ingredients removed.
C9_NonPositiveQuantityExcluded ==
    Done => Res.breakdown.materialsTotal =
                WithIngredients(SelectSeq(product.ingredients, PositiveQuantity))
                    .breakdown.materialsTotal

\* the wage the claim selects, given whether overrides.laborRateId counts as given
ClaimedWage(given) ==
    LET id == overrides.laborRateId
    IN  IF ~given
        THEN (IF laborRates = <<>> THEN Num(20000) ELSE laborRates[1].wagePerHour)
        ELSE IF \E r \in Range(laborRates) : r.id = id[1]
             THEN (CHOOSE r \in Range(laborRates) : r.id = id[1]).wagePerHour
             ELSE Num(20000)

EffectiveLaborMinutes ==
    IF overrides.laborMinutes = Undefined THEN product.laborMinutes
    ELSE overrides.laborMinutes[1]

\* C10 as stated: no laborRateId selects the first rate, a laborRateId that
\* resolves selects that rate, an empty snapshot or any laborRateId that does not
\* resolve selects the wage 20000; laborCost = (wage / 60) * labor minutes.
C10_LaborRateSelection ==
    Done => Res.breakdown.laborCost =
                Mul(Div(ClaimedWage(overrides.laborRateId # Undefined), Num(60)),
                    EffectiveLaborMinutes)

\* C10 amended: an empty-string laborRateId counts as no override (the first
\* rate is used); only a non-empty laborRateId that does not resolve, or an
\* empty snapshot, selects the wage 20000.
C10_LaborRateSelectionNonEmptyId ==
    Done => Res.breakdown.laborCost =
                Mul(Div(ClaimedWage(/\ overrides.laborRateId # Undefined
                                    /\ overrides.laborRateId # <<"">>),
                        Num(60)),
                    EffectiveLaborMinutes)

\* a non-empty id that resolves to no rate of a non-empty snapshot
C10_Witness ==
    /\ Done
    /\ overrides.laborRateId # Undefined
    /\ overrides.laborRateId # <<"">>
    /\ laborRates # <<>>
    /\ \A r \in Range(laborRates) : r.id # overrides.laborRateId[1]
    /\ ~IsZero(Res.breakdown.laborCost)

\* The overrides are varied against the full tables: every product, every
\* override and every overhead list, with both materials and both labor rates
\* fetched.
InitOverrides ==
    /\ product \in Products
    /\ overrides \in OverrideChoices
    /\ materials = <<Mentega, Telur>>
    /\ overheads \in SeqsUpTo(OverheadChoices, MaxRows - Len(product.ingredients))
    /\ laborRates = <<Baker, Helper>>
    /\ pc = "idle"
    /\ result = Undefined
    /\ NoForecastCall
    /\ NoStore
    /\ NoPages

NextOverrides == CalculateHPP

SpecOverrides == InitOverrides /\ [][NextOverrides]_vars

\* the result of the same call under other overrides
WithOverrides(ovr) == calculateHPP(product, ovr, materials, overheads, laborRates)

IsNotFixed(o) == o.allocationType # "fixed"

\* the sum of amount / monthlyProduction over the 'fixed' rules from rule i on
RECURSIVE FixedShareFrom(_, _)
FixedShareFrom(i, monthlyProduction) ==
    IF i > Len(overheads) THEN Num(0)
    ELSE IF overheads[i].allocationType = "fixed"
         THEN Add(Div(overheads[i].amount, monthlyProduction),
                  FixedShareFrom(i + 1, monthlyProduction))
         ELSE FixedShareFrom(i + 1, monthlyProduction)

\* the overrides with the price override of material m set to price
WithPrice(m, price) ==
    [overrides EXCEPT !.materialPrices =
        Some(<<[materialId |-> m, pricePerUnit |-> price]>>
             \o Coalesce(overrides.materialPrices, <<>>))]

\* changing only monthlyProduction leaves materialsTotal, the lines, laborCost
\* and the margin alone, and overheadCost is the overhead of the per_unit and
\* percentage rules, the same for every monthlyProduction, plus the shares of
\* the fixed rules
MonthlyProductionIndependent ==
    LET others == calculateHPP(product, overrides, materials,
                               SelectSeq(overheads, IsNotFixed), laborRates)
    IN  \A mp \in {Undefined, Some(Num(0)), Some(Num(250))} :
            LET r == WithOverrides([overrides EXCEPT !.monthlyProduction = mp])
            IN  /\ r.breakdown.materialsTotal = Res.breakdown.materialsTotal
                /\ r.breakdown.materialDetails = Res.breakdown.materialDetails
                /\ r.breakdown.laborCost = Res.breakdown.laborCost
                /\ r.marginPercent = Res.marginPercent
                /\ r.breakdown.overheadCost =
                       Add(others.breakdown.overheadCost,
                           FixedShareFrom(1, Coalesce(mp, Num(DEFAULT_MONTHLY_PRODUCTION))))

\* changing only the price override of a material leaves the lines of the
\* ingredients that do not reference it, laborCost and the margin alone, and
\* changes nothing at all when no ingredient references it
PriceOverrideIndependent ==
    \A change \in {<<"m1", Num(0)>>, <<"m2", Num(3000)>>, <<"mx", Num(0)>>, <<"my", Num(3000)>>} :
        LET m == change[1]
            r == WithOverrides(WithPrice(m, change[2]))
        IN  /\ \A i \in 1..Len(product.ingredients) :
                  product.ingredients[i].materialId # m =>
                      r.breakdown.materialDetails[i] = Res.breakdown.materialDetails[i]
            /\ r.breakdown.laborCost = Res.breakdown.laborCost
            /\ r.marginPercent = Res.marginPercent
            /\ (\A i \in 1..Len(product.ingredients) :
                    product.ingredients[i].materialId # m) => r = Res

\* an override of 0 is used as it is
ZeroOverrideHonoured ==
    /\ overrides.marginPercent = Some(Num(0)) =>
          /\ IsZero(Res.marginPercent)
          /\ Res.suggestedPrice = RoundUp100(Res.breakdown.hppPerUnit)
    /\ overrides.laborMinutes = Some(Num(0)) => IsZero(Res.breakdown.laborCost)

\* C25: the overrides of calculateHPP are independent: changing only
\* monthlyProduction changes only the contribution of the fixed overheads,
\* changing only the price override of a material changes only the lines of the
\* ingredients that reference it, a price override for a material the product
\* does not use changes nothing, and an override of 0 for marginPercent or
\* laborMinutes is honoured instead of replaced by the default.
C25_OverridesIndependent ==
    Done => MonthlyProductionIndependent /\ PriceOverrideIndependent /\ ZeroOverrideHonoured

\* a call with margin 0 of a product using both materials and not "my", with a
\* fixed overhead and a hppPerUnit that the default margin would price otherwise
C25_Witness ==
    /\ Done
    /\ overrides.marginPercent = Some(Num(0))
    /\ \E i, j \in 1..Len(product.ingredients) :
          /\ product.ingredients[i].materialId = "m1"
          /\ product.ingredients[j].materialId = "m2"
    /\ \E o \in Range(overheads) : o.allocationType = "fixed"
    /\ IsFinite(Res.breakdown.hppPerUnit)
    /\ Lt(Num(0), Res.breakdown.hppPerUnit)
    /\ WithOverrides(WithPrice("m1", Num(0))) # Res
    /\ WithOverrides([overrides EXCEPT !.monthlyProduction = Some(Num(250))]) # Res

(***************************************************************************)
(* calculateForecast                                                       *)
(*                                                                         *)
(* An instant is a whole number of hours since the epoch.  The runtime's   *)
(* time zone is a fixed offset in hours: daylight-saving changes of the    *)
(* offset inside the window are not modelled.                              *)
(***************************************************************************)
WINDOW_DAYS == 90

HOURS_PER_DAY == 24

\* 1970-01-01 was a Thursday
EPOCH_WEEKDAY == 4

WEEKEND_FACTOR == Frac(13, 10)

TREND_THRESHOLD == 5

MA_SHORT == 7

MA_LONG == 30

MONTH_DAYS == 30

DEFAULT_STOCK == 100

\* Math.floor
Floor(x) == IF x.d = 0 THEN x ELSE Num(x.n \div x.d)

\* Math.max of two numbers
Max(x, y) == IF IsNaN(x) \/ IsNaN(y) THEN NaN ELSE IF Lt(x, y) THEN y ELSE x

\* a || b on numbers: 0 and NaN are falsy
OrElse(x, b) == IF IsNaN(x) \/ IsZero(x) THEN b ELSE x

\* Array.prototype.filter over s[lo..hi], the test given as the set of the
\* values that pass (the range is halved to keep the evaluation shallow)
RECURSIVE FilterRange(_, _, _, _)
FilterRange(s, passing, lo, hi) ==
    IF lo > hi THEN <<>>
    ELSE IF lo = hi THEN (IF s[lo] \in passing THEN <<s[lo]>> ELSE <<>>)
    ELSE LET mid == (lo + hi) \div 2
         IN  FilterRange(s, passing, lo, mid) \o FilterRange(s, passing, mid + 1, hi)

Filter(s, passing) == FilterRange(s, passing, 1, Len(s))

\* data.slice(lo - 1, hi).reduce((a, b) => a + b, 0) (the range is halved to
\* keep the evaluation shallow; exact sums do not depend on the grouping)
RECURSIVE SumRange(_, _, _)
SumRange(data, lo, hi) ==
    IF lo > hi THEN Num(0)
    ELSE IF lo = hi THEN data[lo]
    ELSE LET mid == (lo + hi) \div 2
         IN  Add(SumRange(data, lo, mid), SumRange(data, mid + 1, hi))

Sum(data) == SumRange(data, 1, Len(data))

\* date.toISOString().split('T')[0]: the UTC calendar day of an instant
DateKey(t) == t \div HOURS_PER_DAY

\* the wall-clock reading of an instant in the runtime's time zone
LocalTime(t, tz) == t + tz

\* date.getDay(): the local day of the week, 0 = Sunday
GetDay(t, tz) == ((LocalTime(t, tz) \div HOURS_PER_DAY) + EPOCH_WEEKDAY) % 7

\* date.setDate(date.getDate() + i): i local calendar days later, same wall clock
AddDays(t, i, tz) == (LocalTime(t, tz) + i * HOURS_PER_DAY) - tz

\* sales.filter(s => saleDate >= ninetyDaysAgo && saleDate <= now)
RecentSales(productSales, t, tz) ==
    LET ninetyDaysAgo == AddDays(t, -WINDOW_DAYS, tz)
    IN  Filter(productSales,
               {s \in Range(productSales) : s.soldAt >= ninetyDaysAgo /\ s.soldAt <= t})

\* the Map dailySales after recentSales.forEach(...): each date key that
\* occurs carries the sum of the quantities sold on it
DailySales(recentSales) ==
    [dateKey \in {DateKey(s.soldAt) : s \in Range(recentSales)} |->
        LET onDay == Filter(recentSales, {s \in Range(recentSales) :
                                             DateKey(s.soldAt) = dateKey})
        IN  Sum([i \in 1..Len(onDay) |-> onDay[i].quantity])]

\* salesArray.map(s => s.qty): entry k is the day WINDOW_DAYS - k days back
SalesArray(dailySales, t, tz) ==
    [k \in 1..WINDOW_DAYS |->
        LET dateKey == DateKey(AddDays(t, -(WINDOW_DAYS - k), tz))
        IN  IF dateKey \in DOMAIN dailySales THEN dailySales[dateKey] ELSE Num(0)]

calculateMovingAverage(data, window) ==
    IF Len(data) < window
    THEN OrElse(Div(Sum(data), Num(Len(data))), Num(0))
    ELSE Div(SumRange(data, Len(data) - window + 1, Len(data)), Num(window))

\* linearRegression with the two products of the slope's numerator exchanged
linearRegressionExchanged(data) ==
    LET n == Len(data)
        sumX == Sum([i \in 1..n |-> data[i][1]])
        sumY == Sum([i \in 1..n |-> data[i][2]])
        sumXY == Sum([i \in 1..n |-> Mul(data[i][1], data[i][2])])
        sumXX == Sum([i \in 1..n |-> Mul(data[i][1], data[i][1])])
        slope == Div(Sub(Mul(sumX, sumY), Mul(Num(n), sumXY)),
                     Sub(Mul(Num(n), sumXX), Mul(sumX, sumX)))
        intercept == Div(Sub(sumY, Mul(slope, sumX)), Num(n))
    IN  IF n < 2 THEN [slope |-> Num(0), intercept |-> Num(0)]
        ELSE [slope |-> IF IsNaN(slope) THEN Num(0) ELSE slope,
              intercept |-> IF IsNaN(intercept) THEN Num(0) ELSE intercept]

\* data is an array of [x, y] pairs
linearRegression(data) ==
    LET n == Len(data)
        sumX == Sum([i \in 1..n |-> data[i][1]])
        sumY == Sum([i \in 1..n |-> data[i][2]])
        sumXY == Sum([i \in 1..n |-> Mul(data[i][1], data[i][2])])
        sumXX == Sum([i \in 1..n |-> Mul(data[i][1], data[i][1])])
        slope == Div(Sub(Mul(Num(n), sumXY), Mul(sumX, sumY)),
                     Sub(Mul(Num(n), sumXX), Mul(sumX, sumX)))
        intercept == Div(Sub(sumY, Mul(slope, sumX)), Num(n))
    IN  IF n < 2 THEN [slope |-> Num(0), intercept |-> Num(0)]
        ELSE [slope |-> IF IsNaN(slope) THEN Num(0) ELSE slope,
              intercept |-> IF IsNaN(intercept) THEN Num(0) ELSE intercept]

\* (slope / Math.max(ma30, 1)) * 100 * 30
TrendPercent(slope, ma30) ==
    Mul(Mul(Div(slope, Max(ma30, Num(1))), Num(100)), Num(MONTH_DAYS))

\* the trend classified on the rounded percentage
TrendOfRounded(trendPercent) ==
    LET rounded == Div(Round(Mul(trendPercent, Num(10))), Num(10))
    IN  IF Lt(Num(TREND_THRESHOLD), rounded) THEN "up"
        ELSE IF Lt(rounded, Num(-TREND_THRESHOLD)) THEN "down"
        ELSE "stable"

Trend(trendPercent) ==
    IF Lt(Num(TREND_THRESHOLD), trendPercent) THEN "up"
    ELSE IF Lt(trendPercent, Num(-TREND_THRESHOLD)) THEN "down"
    ELSE "stable"

\* the predicted quantity without the clamp at 0
PredictedQtyUnclamped(baseValue, trendFactor, weekendFactor) ==
    Round(Mul(Mul(baseValue, trendFactor), weekendFactor))

\* Math.max(0, Math.round(baseValue * trendFactor * weekendFactor))
PredictedQty(baseValue, trendFactor, weekendFactor) ==
    Max(Num(0), Round(Mul(Mul(baseValue, trendFactor), weekendFactor)))

WeekendFactor(dayOfWeek) ==
    IF dayOfWeek = 0 \/ dayOfWeek = 6 THEN WEEKEND_FACTOR ELSE Num(1)

TrendFactor(slope, i, baseValue) ==
    Add(Num(1), Div(Mul(slope, Num(i)), Max(baseValue, Num(1))))

\* the entry pushed by iteration i of the forecast loop
ForecastDay(t, tz, i, baseValue, slope) ==
    LET forecastDate == AddDays(t, i, tz)
        dayOfWeek == GetDay(forecastDate, tz)
    IN  [date |-> DateKey(forecastDate),
         quantity |-> PredictedQty(baseValue, TrendFactor(slope, i, baseValue),
                                   WeekendFactor(dayOfWeek))]

\* the forecast loop started at the evaluation day
DailyForecastFromToday(t, tz, horizon, baseValue, slope) ==
    [i \in 1..horizon |-> ForecastDay(t, tz, i - 1, baseValue, slope)]

\* for (let i = 1; i <= horizonDays; i++)
DailyForecast(t, tz, horizon, baseValue, slope) ==
    [i \in 1..horizon |-> ForecastDay(t, tz, i, baseValue, slope)]

\* dailyForecast.reduce((sum, d) => sum + d.quantity, 0)
RECURSIVE TotalForecastFrom(_, _, _)
TotalForecastFrom(dailyForecast, i, sum) ==
    IF i > Len(dailyForecast) THEN sum
    ELSE TotalForecastFrom(dailyForecast, i + 1, Add(sum, dailyForecast[i].quantity))

\* one step of product.ingredients.reduce(...) of the current stock
StockStep(total, ing, yieldPerBatch, mats) ==
    LET material == Find(mats, {m \in Range(mats) : m.id = ing.materialId})
    IN  IF ~IsDefined(material) THEN total
        ELSE Add(total, Mul(Floor(Div(material[1].stockAmount, ing.quantity)),
                            yieldPerBatch))

RECURSIVE StockFrom(_, _, _, _)
StockFrom(prod, mats, i, total) ==
    IF i > Len(prod.ingredients) THEN total
    ELSE StockFrom(prod, mats, i + 1,
                   StockStep(total, prod.ingredients[i], prod.yieldPerBatch, mats))

\* product.ingredients.reduce(..., 0) || 100
CurrentStock(prod, mats) == OrElse(StockFrom(prod, mats, 1, Num(0)), Num(DEFAULT_STOCK))

\* the safety buffer rounded to the nearest integer
SafetyBufferRounded(ma7, safety) == Round(Mul(ma7, safety))

\* Math.ceil(ma7 * safetyDays)
SafetyBuffer(ma7, safety) == Ceil(Mul(ma7, safety))

\* the restock without the clamp at 0
RestockUnclamped(totalForecast, currentStock, safetyBuffer) ==
    Add(Sub(totalForecast, currentStock), safetyBuffer)

\* Math.max(0, totalForecast - currentStock + safetyBuffer)
RecommendedRestock(totalForecast, currentStock, safetyBuffer) ==
    Max(Num(0), Add(Sub(totalForecast, currentStock), safetyBuffer))

\* the first product of the list, whatever its id
FindProductOrFirst(prods, id) == IF prods = <<>> THEN Undefined ELSE Some(prods[1])

\* products.find(p => p.id === productId)
FindProduct(prods, id) == Find(prods, {p \in Range(prods) : p.id = id})

\* calculateForecast(id, horizon, safety) evaluated at instant t in time zone
\* tz against the fetched products, sales and materials; null is Undefined
calculateForecast(id, horizon, safety, prods, allSales, mats, t, tz) ==
    LET found == FindProduct(prods, id)
    IN  IF ~IsDefined(found) THEN Undefined
        ELSE
        LET prod == found[1]
            productSales == Filter(allSales, {s \in Range(allSales) : s.productId = id})
            recentSales == RecentSales(productSales, t, tz)
            qtys == SalesArray(DailySales(recentSales), t, tz)
            ma7 == calculateMovingAverage(qtys, MA_SHORT)
            ma30 == calculateMovingAverage(qtys, MA_LONG)
            slope == linearRegression([k \in 1..Len(qtys) |-> <<Num(k - 1), qtys[k]>>]).slope
            trendPercent == TrendPercent(slope, ma30)
            dailyForecast == DailyForecast(t, tz, horizon, ma7, slope)
            totalForecast == TotalForecastFrom(dailyForecast, 1, Num(0))
            currentStock == CurrentStock(prod, mats)
            safetyBuffer == SafetyBuffer(ma7, safety)
        IN  Some([productId |-> id,
                  productName |-> prod.name,
                  horizon |-> horizon,
                  dailyForecast |-> dailyForecast,
                  totalForecast |-> totalForecast,
                  currentStock |-> currentStock,
                  recommendedRestock |->
                      RecommendedRestock(totalForecast, currentStock, safetyBuffer),
                  averageDailySales |-> ma7,
                  trend |-> Trend(trendPercent),
                  trendPercent |-> Div(Round(Mul(trendPercent, Num(10))), Num(10))])

(***************************************************************************)
(* The forecasting state machine: a call of                                *)
(* calculateForecast(productId, horizonDays, safetyDays) at the instant    *)
(* now against the rows the three fetches return.                          *)
(***************************************************************************)
\* a call lists at most MaxSales separate sales besides a daily series
MaxSales == 2

\* the longest horizon of a call
MaxHorizon == 7

Day(n) == n * HOURS_PER_DAY

\* 2024-10-04 (a Friday) at 03:00, 12:00 and 20:00 UTC, in a time zone whose
\* local date is the UTC date or the day before or after it
Clocks ==
    {[now |-> Day(20000) + 12, tz |-> 0], [now |-> Day(20000) + 20, tz |-> 0],
     [now |-> Day(20000) + 3, tz |-> -5], [now |-> Day(20000) + 20, tz |-> 7]}

Sale(pid, q, at) == [productId |-> pid, quantity |-> Num(q), soldAt |-> at]

\* separate sales around the instant t: at t, 30 days back, at the first instant
\* of the window, 89 days back, an hour after t, and of another product
SaleChoices(t) ==
    {Sale("p1", 5, t), Sale("p1", 7, t - Day(30)), Sale("p1", 3, t - Day(90)),
     Sale("p1", 1000, t - Day(89)), Sale("p1", 2, t + 1), Sale("p2", 9, t - Day(1))}

\* one sale on each of the 90 days up to t, each day's larger than the day before
RisingSales(t, first, step, last) ==
    [k \in 1..WINDOW_DAYS |->
        Sale("p1", first + step * (k - 1) + (IF k = WINDOW_DAYS THEN last ELSE 0),
             t - Day(WINDOW_DAYS - k))]

SalesTables(t) ==
    SeqsUpTo(SaleChoices(t), MaxSales)
    \cup {RisingSales(t, first, step, last) :
            first \in {0, 1000}, step \in {1, 2}, last \in {0, 5}}

\* the ingredient lists of the stored product: none, one whose material covers
\* 20 batches, one whose material covers no batch, an unresolved one, two, and
\* one with quantity 0
StoredIngredientLists ==
    {<<>>,
     <<[materialId |-> "m1", quantity |-> Num(250)]>>,
     <<[materialId |-> "m2", quantity |-> Num(250)]>>,
     <<[materialId |-> "mx", quantity |-> Num(100)]>>,
     <<[materialId |-> "m1", quantity |-> Num(250)],
       [materialId |-> "m2", quantity |-> Num(3)]>>,
     <<[materialId |-> "m1", quantity |-> Num(0)]>>}

Roti(ings, y) ==
    [id |-> "p1", name |-> "Roti", yieldPerBatch |-> Num(y), laborMinutes |-> Num(30),
     ingredients |-> ings]

Kue == [id |-> "p2", name |-> "Kue", yieldPerBatch |-> Num(12),
        laborMinutes |-> Num(45), ingredients |-> <<>>]

\* the rows getProducts returns ([] when the fetch fails or nothing is stored)
ProductTables ==
    {<<>>} \cup {<<Kue, Roti(ings, 10)>> : ings \in StoredIngredientLists}
           \cup {<<Kue, Roti(<<[materialId |-> "m1", quantity |-> Num(250)]>>, 0)>>}

StandardProducts == <<Kue, Roti(<<[materialId |-> "m1", quantity |-> Num(250)]>>, 10)>>

HorizonChoices == {-1, 0, 1, MaxHorizon}

\* no call of calculateHPP is under way
NoHPPCall ==
    /\ product = Roti(<<>>, 10)
    /\ overrides = NoOverrides
    /\ overheads = <<>>
    /\ laborRates = <<>>

\* The sales vary against the standard product and tables, with every clock
\* at the longest horizon and every horizon at noon UTC (safetyDays is the
\* default 7, or 10 against a daily series); the stored product,
\* the materials, the requested id and the safety days vary against an empty
\* sales table and a single sale at noon UTC.
InitForecast ==
    /\ \E c \in Clocks : now = c.now /\ tzOffset = c.tz
    /\ sales \in SalesTables(now)
    /\ products \in ProductTables
    /\ materials \in MaterialTables
    /\ productId \in {"p1", "px"}
    /\ horizonDays \in HorizonChoices
    /\ safetyDays \in {Num(0), Num(7), Num(10)}
    /\ \/ /\ products = StandardProducts
          /\ materials # <<>>
          /\ productId = "p1"
          /\ safetyDays = Num(7) \/ (safetyDays = Num(10) /\ Len(sales) = WINDOW_DAYS)
          /\ horizonDays = MaxHorizon \/ (now = Day(20000) + 12 /\ tzOffset = 0)
       \/ /\ sales \in {<<>>, <<Sale("p1", 5, now)>>}
          /\ now = Day(20000) + 12
          /\ safetyDays # Num(10)
    /\ NoHPPCall
    /\ NoStore
    /\ NoPages
    /\ pc = "idle"
    /\ result = Undefined

CalculateForecast ==
    /\ pc = "idle"
    /\ result' = calculateForecast(productId, horizonDays, safetyDays,
                                   products, sales, materials, now, tzOffset)
    /\ pc' = "done"
    /\ UNCHANGED <<hppVars, forecastVars, storeVars, pageVars, materials>>

NextForecast == CalculateForecast

SpecForecast == InitForecast /\ [][NextForecast]_vars

(***************************************************************************)
(* Properties of calculateForecast                                         *)
(***************************************************************************)
\* the call has returned a forecast
Forecasted == pc = "done" /\ IsDefined(result)

Fc == result[1]

\* the sales of the requested product, and those of them in the window
ProductSales == Filter(sales, {s \in Range(sales) : s.productId = productId})

WindowSales ==
    Filter(ProductSales, {s \in Range(ProductSales) :
                              now - Day(WINDOW_DAYS) <= s.soldAt /\ s.soldAt <= now})

\* the daily series of the call and the statistics taken from it
Series == SalesArray(DailySales(RecentSales(ProductSales, now, tzOffset)), now, tzOffset)

StatsOf(series) ==
    LET ma7 == calculateMovingAverage(series, MA_SHORT)
        ma30 == calculateMovingAverage(series, MA_LONG)
        slope == linearRegression([k \in 1..Len(series) |-> <<Num(k - 1), series[k]>>]).slope
    IN  [series |-> series, ma7 |-> ma7, slope |-> slope,
         trendPercent |-> Mul(Div(slope, Max(ma30, Num(1))), Num(3000))]

Stats == StatsOf(Series)

IsNonNegativeInteger(x) == x.d = 1 /\ x.n >= 0

\* C13: calculateForecast returns null exactly when productId is the id of no
\* fetched product; otherwise it returns a result that carries the requested
\* productId and the name of the product with that id.
C13_NullIffUnknownProduct ==
    pc = "done" =>
        /\ result = Undefined <=> (\A p \in Range(products) : p.id # productId)
        /\ IsDefined(result) =>
              /\ Fc.productId = productId
              /\ \E p \in Range(products) : p.id = productId /\ Fc.productName = p.name

\* an unknown id asked of a non-empty product list
C13_Witness ==
    /\ pc = "done"
    /\ products # <<>>
    /\ \A p \in Range(products) : p.id # productId
    /\ result = Undefined

StrictlyIncreasing(data) == \A k \in 2..Len(data) : Lt(data[k - 1], data[k])

\* C15: when every day of the 90-day series has more sales than the day
\* before, the regression slope is strictly positive, and the trend is 'up'
\* whenever the unrounded trendPercent exceeds 5.
C15_RisingSeriesSlopesUp ==
    LET st == Stats
    IN  Forecasted /\ StrictlyIncreasing(st.series) =>
            /\ Lt(Num(0), st.slope)
            /\ Lt(Num(TREND_THRESHOLD), st.trendPercent) => Fc.trend = "up"

\* a rising series whose trend is 'up'
C15_Witness ==
    LET st == Stats
    IN  /\ Forecasted
        /\ StrictlyIncreasing(st.series)
        /\ Lt(Num(TREND_THRESHOLD), st.trendPercent)
        /\ Fc.trend = "up"

\* C16: the daily series has exactly 90 entries and their sum is the total
\* quantity of the product's sales with ninetyDaysAgo <= soldAt <= now (no
\* in-window sale is dropped or counted twice).
C16_SeriesCoversWindow ==
    LET series == Series
        inWindow == WindowSales
    IN  Forecasted =>
            /\ Len(series) = WINDOW_DAYS
            /\ Sum(series) = Sum([i \in 1..Len(inWindow) |-> inWindow[i].quantity])

\* C17: trend is 'up' exactly when the unrounded trendPercent is above 5,
\* 'down' exactly when it is below -5 and 'stable' otherwise; the reported
\* trendPercent is the unrounded one rounded to one decimal (the nearest
\* tenth, a half going up), so the rounding plays no part in the
\* classification.
C17_TrendClassification ==
    LET unrounded == Stats.trendPercent
    IN  Forecasted =>
            /\ Fc.trend = "up" <=> Lt(Num(5), unrounded)
            /\ Fc.trend = "down" <=> Lt(unrounded, Num(-5))
            /\ Fc.trend = "stable" <=> Leq(Num(-5), unrounded) /\ Leq(unrounded, Num(5))
            /\ Mul(Fc.trendPercent, Num(10)) = Floor(Add(Mul(unrounded, Num(10)), Frac(1, 2)))

\* an unrounded percentage above 5 that is reported as 5.0
C17_Witness ==
    /\ Forecasted
    /\ Fc.trend = "up"
    /\ Fc.trendPercent = Num(5)

\* the value claimed for the i-th daily quantity
ClaimedQuantity(i, ma7, slope) ==
    LET dayOfWeek == GetDay(now + Day(i), tzOffset)
        weekendFactor == IF dayOfWeek \in {0, 6} THEN Frac(13, 10) ELSE Num(1)
        trendFactor == Add(Num(1), Div(Mul(slope, Num(i)), Max(ma7, Num(1))))
    IN  Round(Max(Num(0), Mul(Mul(ma7, trendFactor), weekendFactor)))

\* C18: the i-th daily quantity, 1 <= i <= horizonDays, is
\* round(max(0, ma7 * (1 + slope * i / max(ma7, 1)) * weekendFactor)), a
\* non-negative integer, also when the trend factor is negative.
C18_DailyQuantity ==
    LET st == Stats
    IN  Forecasted =>
            \A i \in 1..horizonDays :
                /\ Fc.dailyForecast[i].quantity = ClaimedQuantity(i, st.ma7, st.slope)
                /\ IsNonNegativeInteger(Fc.dailyForecast[i].quantity)

\* a day whose trend factor is so negative that the rounded product is below 0
C18_Witness ==
    LET st == Stats
    IN  /\ Forecasted
        /\ \E i \in 1..horizonDays :
              /\ Lt(TrendFactor(st.slope, i, st.ma7), Num(0))
              /\ Lt(Mul(st.ma7, TrendFactor(st.slope, i, st.ma7)), Num(-1))
              /\ IsZero(Fc.dailyForecast[i].quantity)

CoveredUnits(prod) ==
    Sum([i \in 1..Len(prod.ingredients) |->
            LET ing == prod.ingredients[i]
                found == {m \in Range(materials) : m.id = ing.materialId}
                material == CHOOSE m \in found : TRUE
            IN  IF found = {} THEN Num(0)
                ELSE Mul(Floor(Div(material.stockAmount, ing.quantity)),
                         prod.yieldPerBatch)])

\* C20: currentStock is the placeholder 100 only for a product without
\* ingredients; for a product with at least one ingredient it is the sum over
\* the resolvable ingredients of floor(stockAmount / quantity) * yieldPerBatch,
\* also when that sum is 0.
C20_PlaceholderOnlyWithoutIngredients ==
    Forecasted =>
        LET prod == CHOOSE p \in Range(products) : p.id = productId
        IN  Fc.currentStock = (IF prod.ingredients = <<>> THEN Num(DEFAULT_STOCK)
                               ELSE CoveredUnits(prod))

\* C21: in every forecast, recommendedRestock is
\* max(0, totalForecast - currentStock + ceil(ma7 * safetyDays)); it is never
\* negative, and it is 0 whenever currentStock is at least
\* totalForecast + ceil(ma7 * safetyDays).
C21_RestockFormula ==
    Forecasted =>
        LET buffer == Neg(Floor(Neg(Mul(Fc.averageDailySales, safetyDays))))
            needed == Add(Sub(Fc.totalForecast, Fc.currentStock), buffer)
        IN  /\ Fc.recommendedRestock = (IF Lt(Num(0), needed) THEN needed ELSE Num(0))
            /\ ~Lt(Fc.recommendedRestock, Num(0))
            /\ Leq(Add(Fc.totalForecast, buffer), Fc.currentStock) =>
                  IsZero(Fc.recommendedRestock)

\* a positive restock whose buffer ceil(ma7 * safetyDays) is rounded up
C21_Witness ==
    /\ Forecasted
    /\ Mul(Fc.averageDailySales, safetyDays).d > 1
    /\ Lt(Num(0), Fc.recommendedRestock)

\* C22: in every forecast currentStock and recommendedRestock are finite and
\* not negative, also for a product with an ingredient of quantity 0 or a
\* yieldPerBatch of 0: no division lets infinity or NaN into the result.
C22_StockFinite ==
    Forecasted =>
        /\ IsFinite(Fc.currentStock) /\ Fc.currentStock.n >= 0
        /\ IsFinite(Fc.recommendedRestock) /\ Fc.recommendedRestock.n >= 0

\* the day of the week of a UTC calendar day, 0 = Sunday
WeekdayOfDate(date) == (date + EPOCH_WEEKDAY) % 7

\* C23: the weekend factor 1.3 is applied to a dailyForecast entry exactly
\* when the date reported in the entry is a Saturday or a Sunday, for every
\* evaluation instant and time-zone offset.
C23_WeekendFactorOfReportedDate ==
    LET st == Stats
    IN  Forecasted =>
            \A i \in 1..Len(Fc.dailyForecast) :
                LET entry == Fc.dailyForecast[i]
                    factor == IF WeekdayOfDate(entry.date) \in {0, 6}
                              THEN Frac(13, 10) ELSE Num(1)
                    predicted == Round(Mul(Mul(st.ma7, TrendFactor(st.slope, i, st.ma7)),
                                           factor))
                IN  entry.quantity = (IF Lt(Num(0), predicted) THEN predicted ELSE Num(0))

(***************************************************************************)
(* lib/store: the fetches behind a call of calculateHPP or                 *)
(* calculateForecast.  A table is the set of its rows; every request to    *)
(* the database either succeeds or comes back with an error.               *)
(***************************************************************************)
seedMaterials ==
    <<[name |-> "Tepung Terigu", unit |-> "kg", pricePerUnit |-> Num(12000),
       stockAmount |-> Num(50)],
      [name |-> "Gula Pasir", unit |-> "kg", pricePerUnit |-> Num(15000),
       stockAmount |-> Num(30)],
      [name |-> "Telur", unit |-> "pcs", pricePerUnit |-> Num(2500),
       stockAmount |-> Num(200)],
      [name |-> "Mentega", unit |-> "g", pricePerUnit |-> Num(80),
       stockAmount |-> Num(5000)],
      [name |-> "Susu UHT", unit |-> "ml", pricePerUnit |-> Num(20),
       stockAmount |-> Num(10000)],
      [name |-> "Cokelat Bubuk", unit |-> "g", pricePerUnit |-> Num(150),
       stockAmount |-> Num(2000)],
      [name |-> "Vanili", unit |-> "g", pricePerUnit |-> Num(500),
       stockAmount |-> Num(500)],
      [name |-> "Baking Powder", unit |-> "g", pricePerUnit |-> Num(100),
       stockAmount |-> Num(1000)]>>

seedOverheads ==
    <<[name |-> "Listrik & Gas", amount |-> Num(500000), allocationType |-> "fixed"],
      [name |-> "Sewa Tempat", amount |-> Num(2000000), allocationType |-> "fixed"],
      [name |-> "Packaging", amount |-> Num(500), allocationType |-> "per_unit"]>>

seedLaborRates ==
    <<[name |-> "Baker", wagePerHour |-> Num(25000)],
      [name |-> "Helper", wagePerHour |-> Num(15000)]>>

\* the names of the rows in the order .order('name') gives them
NamesInOrder ==
    <<"Admin", "Baker", "Baking Powder", "Cokelat Bubuk", "Gula Pasir", "Helper",
      "Kue", "Listrik", "Listrik & Gas", "Mentega", "Packaging", "Roti",
      "Sewa Tempat", "Susu UHT", "Telur", "Tepung Terigu", "Vanili">>

NameRank(name) == CHOOSE i \in 1..Len(NamesInOrder) : NamesInOrder[i] = name

\* .select('*').order('name') on the rows of a table
RECURSIVE OrderByName(_)
OrderByName(rows) ==
    IF rows = {} THEN <<>>
    ELSE LET first == CHOOSE r \in rows :
                          \A q \in rows : NameRank(r.name) <= NameRank(q.name)
         IN  <<first>> \o OrderByName(rows \ {first})

\* .select('*').order('sold_at', { ascending: false })
RECURSIVE OrderBySoldAtDescending(_)
OrderBySoldAtDescending(rows) ==
    IF rows = {} THEN <<>>
    ELSE LET first == CHOOSE r \in rows : \A q \in rows : r.sold_at >= q.sold_at
         IN  <<first>> \o OrderBySoldAtDescending(rows \ {first})

\* uuidv4(): the k-th identifier drawn for an insert into a table, fresh in it
Uuid(table, k) == ToString(Cardinality(table) + k)

\* the rows seedMaterialsData, seedOverheadsData and seedLaborRatesData insert
SeedMaterialRows(table) ==
    {[id |-> Uuid(table, k), name |-> seedMaterials[k].name,
      unit |-> seedMaterials[k].unit,
      price_per_unit |-> seedMaterials[k].pricePerUnit,
      stock_amount |-> seedMaterials[k].stockAmount] : k \in 1..Len(seedMaterials)}

SeedOverheadRows(table) ==
    {[id |-> Uuid(table, k), name |-> seedOverheads[k].name,
      amount |-> seedOverheads[k].amount,
      allocation_type |-> seedOverheads[k].allocationType] :
        k \in 1..Len(seedOverheads)}

SeedLaborRateRows(table) ==
    {[id |-> Uuid(table, k), name |-> seedLaborRates[k].name,
      wage_per_hour |-> seedLaborRates[k].wagePerHour] : k \in 1..Len(seedLaborRates)}

\* data.map(...) of getMaterials, getOverheads, getLaborRates, getProducts, getSales
MaterialsOf(data) ==
    [i \in 1..Len(data) |->
        [id |-> data[i].id, name |-> data[i].name, unit |-> data[i].unit,
         pricePerUnit |-> data[i].price_per_unit,
         stockAmount |-> data[i].stock_amount]]

OverheadsOf(data) ==
    [i \in 1..Len(data) |->
        [name |-> data[i].name, amount |-> data[i].amount,
         allocationType |-> data[i].allocation_type]]

LaborRatesOf(data) ==
    [i \in 1..Len(data) |->
        [id |-> data[i].id, name |-> data[i].name,
         wagePerHour |-> data[i].wage_per_hour]]

ProductsOf(data) ==
    [i \in 1..Len(data) |->
        [id |-> data[i].id, name |-> data[i].name,
         yieldPerBatch |-> data[i].yield_per_batch,
         laborMinutes |-> data[i].labor_minutes,
         ingredients |->
             [j \in 1..Len(data[i].product_ingredients) |->
                 [materialId |-> data[i].product_ingredients[j].material_id,
                  quantity |-> data[i].product_ingredients[j].quantity]]]]

SalesOf(data) ==
    [i \in 1..Len(data) |->
        [productId |-> data[i].product_id, quantity |-> data[i].quantity,
         soldAt |-> data[i].sold_at]]

\* the rows a table holds when a call starts: none, or rows entered before
StoredMaterials ==
    {[id |-> "m1", name |-> "Mentega", unit |-> "g", price_per_unit |-> Num(80),
      stock_amount |-> Num(5000)],
     [id |-> "m2", name |-> "Telur", unit |-> "pcs", price_per_unit |-> Num(2500),
      stock_amount |-> Num(200)]}

StoredOverheads ==
    {[id |-> "o1", name |-> "Admin", amount |-> Num(10),
      allocation_type |-> "percentage"]}

StoredLaborRates ==
    {[id |-> "r1", name |-> "Baker", wage_per_hour |-> Num(25000)],
     [id |-> "r2", name |-> "Helper", wage_per_hour |-> Num(15000)]}

StoredProducts ==
    {[id |-> "p1", name |-> "Roti", yield_per_batch |-> Num(10),
      labor_minutes |-> Num(30),
      product_ingredients |-> <<[material_id |-> "m1", quantity |-> Num(250)]>>],
     [id |-> "p2", name |-> "Kue", yield_per_batch |-> Num(12),
      labor_minutes |-> Num(45), product_ingredients |-> <<>>]}

StoredSales ==
    {[product_id |-> "p1", quantity |-> Num(5), sold_at |-> Day(20000) + 10],
     [product_id |-> "p1", quantity |-> Num(7), sold_at |-> Day(20000 - 30) + 12]}

\* a page holds the product it costs (Products or Reports) or the id of the
\* product it forecasts; no call is under way
InitStore ==
    /\ db \in [materials : {{}, StoredMaterials}, overheads : {{}, StoredOverheads},
               labor_rates : {{}, StoredLaborRates}, products : {{}, StoredProducts},
               sales : {{}, StoredSales}]
    /\ db0 = db
    /\ op = "none"
    /\ product = Roti(<<[materialId |-> "m1", quantity |-> Num(250)]>>, 10)
    /\ overrides = NoOverrides
    /\ productId \in {"p1", "px"}
    /\ horizonDays = 1
    /\ safetyDays = Num(7)
    /\ now = Day(20000) + 12
    /\ tzOffset = 0
    /\ materials = <<>>
    /\ overheads = <<>>
    /\ laborRates = <<>>
    /\ products = <<>>
    /\ sales = <<>>
    /\ NoPages
    /\ pc = "idle"
    /\ result = Undefined

args == <<product, overrides, productId, horizonDays, safetyDays, now, tzOffset>>

\* calculateHPP(product, overrides) is called: its first await is getMaterials
StartHPP ==
    /\ pc = "idle"
    /\ op' = "hpp"
    /\ db0' = db
    /\ pc' = "getMaterials"
    /\ UNCHANGED <<pageVars, args, db, materials, overheads, laborRates, products, sales, result>>

\* calculateForecast(productId, horizonDays, safetyDays) is called: its first
\* await is getProducts
StartForecast ==
    /\ pc = "idle"
    /\ op' = "forecast"
    /\ db0' = db
    /\ pc' = "getProducts"
    /\ UNCHANGED <<pageVars, args, db, materials, overheads, laborRates, products, sales, result>>

\* getProducts: the select fails or returns the rows; calculateForecast
\* returns null when none of them has the requested id
GetProducts ==
    /\ pc = "getProducts"
    /\ \/ products' = <<>>
       \/ products' = ProductsOf(OrderByName(db.products))
    /\ IF IsDefined(FindProduct(products', productId))
       THEN pc' = "getSales" /\ result' = result
       ELSE pc' = "done" /\ result' = Undefined
    /\ UNCHANGED <<pageVars, args, storeVars, materials, overheads, laborRates, sales>>

\* getSales: the select fails or returns the rows
GetSales ==
    /\ pc = "getSales"
    /\ \/ sales' = <<>>
       \/ sales' = SalesOf(OrderBySoldAtDescending(db.sales))
    /\ pc' = "getMaterials"
    /\ UNCHANGED <<pageVars, args, storeVars, materials, overheads, laborRates, products, result>>

\* getMaterials: the select fails and [] is returned, or the table is empty
\* and seedMaterialsData is awaited, or the rows are returned
GetMaterials ==
    /\ pc = "getMaterials"
    /\ \/ /\ materials' = <<>>
          /\ pc' = IF op = "hpp" THEN "getOverheads" ELSE "compute"
       \/ /\ db.materials = {}
          /\ materials' = materials
          /\ pc' = "seedMaterials"
       \/ /\ db.materials # {}
          /\ materials' = MaterialsOf(OrderByName(db.materials))
          /\ pc' = IF op = "hpp" THEN "getOverheads" ELSE "compute"
    /\ UNCHANGED <<pageVars, args, storeVars, overheads, laborRates, products, sales, result>>

\* seedMaterialsData: the insert succeeds or fails; then getMaterials again
SeedMaterialsData ==
    /\ pc = "seedMaterials"
    /\ \/ db' = [db EXCEPT !.materials = @ \cup SeedMaterialRows(@)]
       \/ db' = db
    /\ pc' = "getMaterials"
    /\ UNCHANGED <<pageVars, args, db0, op, materials, overheads, laborRates, products, sales, result>>

GetOverheads ==
    /\ pc = "getOverheads"
    /\ \/ /\ overheads' = <<>>
          /\ pc' = "getLaborRates"
       \/ /\ db.overheads = {}
          /\ overheads' = overheads
          /\ pc' = "seedOverheads"
       \/ /\ db.overheads # {}
          /\ overheads' = OverheadsOf(OrderByName(db.overheads))
          /\ pc' = "getLaborRates"
    /\ UNCHANGED <<pageVars, args, storeVars, materials, laborRates, products, sales, result>>

SeedOverheadsData ==
    /\ pc = "seedOverheads"
    /\ \/ db' = [db EXCEPT !.overheads = @ \cup SeedOverheadRows(@)]
       \/ db' = db
    /\ pc' = "getOverheads"
    /\ UNCHANGED <<pageVars, args, db0, op, materials, overheads, laborRates, products, sales, result>>

GetLaborRates ==
    /\ pc = "getLaborRates"
    /\ \/ /\ laborRates' = <<>>
          /\ pc' = "compute"
       \/ /\ db.labor_rates = {}
          /\ laborRates' = laborRates
          /\ pc' = "seedLaborRates"
       \/ /\ db.labor_rates # {}
          /\ laborRates' = LaborRatesOf(OrderByName(db.labor_rates))
          /\ pc' = "compute"
    /\ UNCHANGED <<pageVars, args, storeVars, materials, overheads, products, sales, result>>

SeedLaborRatesData ==
    /\ pc = "seedLaborRates"
    /\ \/ db' = [db EXCEPT !.labor_rates = @ \cup SeedLaborRateRows(@)]
       \/ db' = db
    /\ pc' = "getLaborRates"
    /\ UNCHANGED <<pageVars, args, db0, op, materials, overheads, laborRates, products, sales, result>>

\* the rest of calculateHPP or calculateForecast, which awaits nothing more
Return ==
    /\ pc = "compute"
    /\ result' = IF op = "hpp"
                 THEN Some(calculateHPP(product, overrides, materials, overheads,
                                        laborRates))
                 ELSE calculateForecast(productId, horizonDays, safetyDays, products,
                                        sales, materials, now, tzOffset)
    /\ pc' = "done"
    /\ UNCHANGED <<pageVars, args, storeVars, materials, overheads, laborRates, products, sales>>

NextStore ==
    \/ StartHPP
    \/ StartForecast
    \/ GetProducts
    \/ GetSales
    \/ GetMaterials
    \/ SeedMaterialsData
    \/ GetOverheads
    \/ SeedOverheadsData
    \/ GetLaborRates
    \/ SeedLaborRatesData
    \/ Return

SpecStore == InitStore /\ [][NextStore]_vars

(***************************************************************************)
(* Properties of the engines against the store                             *)
(***************************************************************************)
\* C12: calculateHPP and calculateForecast have no side effect on the store:
\* when a call has returned, also one started on an empty materials, overheads
\* or labor_rates table, every table holds the rows it held when the call
\* started.
C12_NoSideEffectOnStore == pc = "done" /\ op # "none" => db = db0

\* the steps of a call that await the database
Fetch ==
    \/ StartHPP
    \/ StartForecast
    \/ GetProducts
    \/ GetSales
    \/ GetMaterials
    \/ SeedMaterialsData
    \/ GetOverheads
    \/ SeedOverheadsData
    \/ GetLaborRates
    \/ SeedLaborRatesData

\* A call that awaits the database takes its next step: the runtime resumes
\* every awaited request once the database has answered it.
SpecStoreFair == InitStore /\ [][NextStore]_vars /\ WF_vars(Fetch)

\* C27: getMaterials, getOverheads and getLaborRates always terminate, also
\* when the table is empty and the seed insert fails: every call of
\* calculateHPP and calculateForecast comes to the end of its fetches, where it
\* computes and returns its result.
C27_FetchesTerminate == <>(pc \in {"compute", "done"})

(***************************************************************************)
(* linearRegression on binary floating-point numbers                       *)
(*                                                                         *)
(* A JavaScript number is a binary floating-point number, and every        *)
(* arithmetic operation returns the representable number nearest to the    *)
(* exact result (ties to the even significand).  The numbers here have a   *)
(* significand of SignificandBits bits instead of 53 and an unbounded      *)
(* exponent; zero carries no sign.  calculateForecast hands                *)
(* linearRegression whole numbers small enough for its sums to be exact,   *)
(* which is why linearRegression above computes them exactly.              *)
(***************************************************************************)
SignificandBits == 4

MaxPoints == 3

RECURSIVE Pow2(_)
Pow2(k) == IF k = 0 THEN 1 ELSE 2 * Pow2(k - 1)

\* the integer nearest to the positive fraction a, ties to even
RoundHalfEven(a) ==
    LET f == a.n \div a.d
        rest == 2 * (a.n - f * a.d)
    IN  IF rest > a.d \/ (rest = a.d /\ f % 2 = 1) THEN f + 1 ELSE f

\* the representable number nearest to a * 2^e, for a positive fraction a
RECURSIVE Nearest(_, _)
Nearest(a, e) ==
    IF ~Lt(a, Num(Pow2(SignificandBits))) THEN Nearest(Div(a, Num(2)), e + 1)
    ELSE IF Lt(a, Num(Pow2(SignificandBits - 1))) THEN Nearest(Mul(a, Num(2)), e - 1)
    ELSE IF e >= 0 THEN Num(RoundHalfEven(a) * Pow2(e))
    ELSE Frac(RoundHalfEven(a), Pow2(-e))

\* the floating-point number an exact result is rounded to
Fl(x) ==
    IF x.d = 0 \/ x.n = 0 THEN x
    ELSE IF x.n < 0 THEN Neg(Nearest(Neg(x), 0))
    ELSE Nearest(x, 0)

\* the forEach of linearRegression from point i on, s the sums so far
RECURSIVE RegressionSums(_, _, _)
RegressionSums(data, i, s) ==
    IF i > Len(data) THEN s
    ELSE LET x == data[i][1]
             y == data[i][2]
         IN  RegressionSums(data, i + 1,
                 [sumX |-> Fl(Add(s.sumX, x)),
                  sumY |-> Fl(Add(s.sumY, y)),
                  sumXY |-> Fl(Add(s.sumXY, Fl(Mul(x, y)))),
                  sumXX |-> Fl(Add(s.sumXX, Fl(Mul(x, x))))])

\* linearRegression with every operation rounded
linearRegressionFloat(data) ==
    LET n == Num(Len(data))
        s == RegressionSums(data, 1,
                 [sumX |-> Num(0), sumY |-> Num(0), sumXY |-> Num(0), sumXX |-> Num(0)])
        slope == Fl(Div(Fl(Sub(Fl(Mul(n, s.sumXY)), Fl(Mul(s.sumX, s.sumY)))),
                        Fl(Sub(Fl(Mul(n, s.sumXX)), Fl(Mul(s.sumX, s.sumX))))))
        intercept == Fl(Div(Fl(Sub(s.sumY, Fl(Mul(slope, s.sumX)))), n))
    IN  IF Len(data) < 2 THEN [slope |-> Num(0), intercept |-> Num(0)]
        ELSE [slope |-> IF IsNaN(slope) THEN Num(0) ELSE slope,
              intercept |-> IF IsNaN(intercept) THEN Num(0) ELSE intercept]

\* x is 0, 1, 5/8 or 7/8 and y is 0, 1 or 5: all representable
PointChoices ==
    {<<x, y>> : x \in {Num(0), Num(1), Frac(5, 8), Frac(7, 8)}, y \in {Num(0), Num(1), Num(5)}}

InitRegression ==
    /\ points \in SeqsUpTo(PointChoices, MaxPoints)
    /\ formData = EmptyForm
    /\ editingProduct = Undefined
    /\ getters = <<>>
    /\ calls = <<>>
    /\ updates = Undefined
    /\ NoHPPCall
    /\ NoForecastCall
    /\ NoStore
    /\ materials = <<>>
    /\ pc = "idle"
    /\ result = Undefined

LinearRegression ==
    /\ pc = "idle"
    /\ result' = Some(linearRegressionFloat(points))
    /\ pc' = "done"
    /\ UNCHANGED <<hppVars, forecastVars, storeVars, pageVars, materials>>

NextRegression == LinearRegression

SpecRegression == InitRegression /\ [][NextRegression]_vars

\* the points all have the x of the first one
SameX == \A i \in 1..Len(points) : points[i][1] = points[1][1]

MaxIngredients == 2

\* String.prototype.trim: the text without its leading and trailing blanks
RECURSIVE TrimStart(_)
TrimStart(text) ==
    IF text # <<>> /\ Head(text) = " " THEN TrimStart(Tail(text)) ELSE text

RECURSIVE TrimEnd(_)
TrimEnd(text) ==
    IF text # <<>> /\ text[Len(text)] = " " THEN TrimEnd(SubSeq(text, 1, Len(text) - 1))
    ELSE text

Trim(text) == TrimEnd(TrimStart(text))

\* the texts typed into the name field
NameChoices == {<<>>, <<" ">>, <<"R">>, <<" ", "R", " ">>}

\* the values chosen for a row: a material of the select, a number typed
MaterialIdChoices == {"m1", "m2"}

QuantityChoices == {Num(0), Num(250), Num(-1)}

\* a product of the list, opened for editing
StoredRoti ==
    [id |-> "p1", name |-> <<"R">>, yieldPerBatch |-> Num(10), laborMinutes |-> Num(30),
     ingredients |-> <<[id |-> 1, materialId |-> "m1", quantity |-> Num(250)]>>]

\* uuidv4(): an id no row of the form carries
NewRowId(rows) == CHOOSE k \in 1..(Len(rows) + 1) : \A i \in 1..Len(rows) : rows[i].id # k

\* i => i.materialId && i.quantity > 0
IsValidIngredient(i) == i.materialId # "" /\ Lt(Num(0), i.quantity)

\* newIngredients.splice(index, 1)
Splice(rows, index) == [i \in 1..(Len(rows) - 1) |-> IF i < index THEN rows[i] ELSE rows[i + 1]]

InitForm ==
    /\ formData = EmptyForm
    /\ editingProduct = Undefined
    /\ points = <<>>
    /\ getters = <<>>
    /\ calls = <<>>
    /\ updates = Undefined
    /\ NoHPPCall
    /\ NoForecastCall
    /\ NoStore
    /\ materials = <<>>
    /\ pc = "closed"
    /\ result = Undefined

formFrame == <<hppVars, forecastVars, storeVars, points, getters, calls, updates, materials>>

\* handleOpenDialog(product) and handleOpenDialog()
HandleOpenDialog ==
    /\ pc = "closed"
    /\ \/ /\ editingProduct' = Some(StoredRoti)
          /\ formData' = [name |-> StoredRoti.name,
                          yieldPerBatch |-> StoredRoti.yieldPerBatch,
                          laborMinutes |-> StoredRoti.laborMinutes,
                          ingredients |-> StoredRoti.ingredients]
       \/ /\ editingProduct' = Undefined
          /\ formData' = EmptyForm
    /\ pc' = "open"
    /\ UNCHANGED <<formFrame, result>>

\* onChange of the name field
HandleNameChange ==
    /\ pc = "open"
    /\ \E value \in NameChoices : formData' = [formData EXCEPT !.name = value]
    /\ UNCHANGED <<formFrame, editingProduct, pc, result>>

HandleAddIngredient ==
    /\ pc = "open"
    /\ Len(formData.ingredients) < MaxIngredients
    /\ formData' = [formData EXCEPT !.ingredients =
                       Append(@, [id |-> NewRowId(@), materialId |-> "", quantity |-> Num(0)])]
    /\ UNCHANGED <<formFrame, editingProduct, pc, result>>

HandleRemoveIngredient ==
    /\ pc = "open"
    /\ \E index \in 1..Len(formData.ingredients) :
          formData' = [formData EXCEPT !.ingredients = Splice(@, index)]
    /\ UNCHANGED <<formFrame, editingProduct, pc, result>>

\* handleIngredientChange(index, 'materialId', value) and (index, 'quantity', value)
HandleIngredientChange ==
    /\ pc = "open"
    /\ \E index \in 1..Len(formData.ingredients) :
          \/ \E value \in MaterialIdChoices :
                formData' = [formData EXCEPT !.ingredients[index].materialId = value]
          \/ \E value \in QuantityChoices :
                formData' = [formData EXCEPT !.ingredients[index].quantity = value]
    /\ UNCHANGED <<formFrame, editingProduct, pc, result>>

HandleSubmit ==
    /\ pc = "open"
    /\ IF Trim(formData.name) = <<>>
       THEN /\ result' = Some([call |-> "toast", description |-> "Nama produk harus diisi"])
            /\ pc' = pc
       ELSE IF Len(formData.ingredients) = 0
       THEN /\ result' = Some([call |-> "toast", description |-> "Tambahkan minimal satu bahan"])
            /\ pc' = pc
       ELSE LET validIngredients == SelectSeq(formData.ingredients, IsValidIngredient)
                saved == [formData EXCEPT !.ingredients = validIngredients]
            IN  /\ result' = Some(IF IsDefined(editingProduct)
                                  THEN [call |-> "updateProduct", id |-> editingProduct[1].id,
                                        product |-> saved]
                                  ELSE [call |-> "addProduct", product |-> saved])
                /\ pc' = "closed"
    /\ UNCHANGED <<formFrame, formData, editingProduct>>

NextForm ==
    \/ HandleOpenDialog
    \/ HandleNameChange
    \/ HandleAddIngredient
    \/ HandleRemoveIngredient
    \/ HandleIngredientChange
    \/ HandleSubmit

SpecForm == InitForm /\ [][NextForm]_vars

\* the last handleSubmit reached addProduct or updateProduct
Saved == IsDefined(result) /\ result[1].call \in {"addProduct", "updateProduct"}

\* C26: every product saved through the product form has a non-empty name and
\* at least one ingredient, and every saved ingredient has a non-empty
\* materialId and a quantity > 0: a form whose rows are all invalid is rejected
\* instead of saved as a product with no ingredient.
C26_SavedProductValid ==
    Saved =>
        LET saved == result[1].product
        IN  /\ saved.name # <<>>
            /\ Len(saved.ingredients) >= 1
            /\ \A i \in 1..Len(saved.ingredients) :
                  /\ saved.ingredients[i].materialId # ""
                  /\ Lt(Num(0), saved.ingredients[i].quantity)

(***************************************************************************)
(* Concurrent calls of the seeding fetches.  Every await of a fetch is a   *)
(* point where another call may run: getters[c] is the table caller c      *)
(* fetches and the await the call is at.                                   *)
(***************************************************************************)
\* a page load and a calculateHPP started by an effect of the page
Callers == {"loadData", "calculatePreview"}

SeededTables == {"materials", "overheads", "labor_rates"}

\* the rows the seed function of a table inserts
SeedRows(table) ==
    CASE table = "materials" -> SeedMaterialRows(db.materials)
      [] table = "overheads" -> SeedOverheadRows(db.overheads)
      [] table = "labor_rates" -> SeedLaborRateRows(db.labor_rates)

InitSeed ==
    /\ db \in [materials : {{}, StoredMaterials}, overheads : {{}, StoredOverheads},
               labor_rates : {{}, StoredLaborRates}, products : {{}}, sales : {{}}]
    /\ db0 = db
    /\ op = "none"
    /\ getters \in [Callers -> [table : SeededTables, pc : {"select"}]]
    /\ points = <<>>
    /\ formData = EmptyForm
    /\ editingProduct = Undefined
    /\ calls = <<>>
    /\ updates = Undefined
    /\ NoHPPCall
    /\ NoForecastCall
    /\ materials = <<>>
    /\ pc = "idle"
    /\ result = Undefined

seedFrame == <<hppVars, forecastVars, points, formData, editingProduct, calls, updates, materials, pc, result, db0, op>>

\* the select of a fetch is answered: an error and [] is returned, or no row
\* and the seed function is awaited, or the rows are returned
Select(c, table) ==
    /\ getters[c] = [table |-> table, pc |-> "select"]
    /\ \/ getters' = [getters EXCEPT ![c].pc = "returned"]
       \/ /\ db[table] = {}
          /\ getters' = [getters EXCEPT ![c].pc = "seed"]
       \/ /\ db[table] # {}
          /\ getters' = [getters EXCEPT ![c].pc = "returned"]
    /\ UNCHANGED <<seedFrame, db>>

\* the insert of a seed function is answered: the rows are inserted or the
\* insert fails; then the fetch is entered again
Seed(c, table) ==
    /\ getters[c] = [table |-> table, pc |-> "seed"]
    /\ \/ db' = [db EXCEPT ![table] = @ \cup SeedRows(table)]
       \/ db' = db
    /\ getters' = [getters EXCEPT ![c].pc = "select"]
    /\ UNCHANGED seedFrame

ConcurrentGetMaterials == \E c \in Callers : Select(c, "materials")

ConcurrentSeedMaterialsData == \E c \in Callers : Seed(c, "materials")

ConcurrentGetOverheads == \E c \in Callers : Select(c, "overheads")

ConcurrentSeedOverheadsData == \E c \in Callers : Seed(c, "overheads")

ConcurrentGetLaborRates == \E c \in Callers : Select(c, "labor_rates")

ConcurrentSeedLaborRatesData == \E c \in Callers : Seed(c, "labor_rates")

NextSeed ==
    \/ ConcurrentGetMaterials
    \/ ConcurrentSeedMaterialsData
    \/ ConcurrentGetOverheads
    \/ ConcurrentSeedOverheadsData
    \/ ConcurrentGetLaborRates
    \/ ConcurrentSeedLaborRatesData

SpecSeed == InitSeed /\ [][NextSeed]_vars

\* the names of the seed rows of a table
SeedNames(table) ==
    CASE table = "materials" -> {seedMaterials[k].name : k \in 1..Len(seedMaterials)}
      [] table = "overheads" -> {seedOverheads[k].name : k \in 1..Len(seedOverheads)}
      [] table = "labor_rates" -> {seedLaborRates[k].name : k \in 1..Len(seedLaborRates)}

\* C28: seed data is inserted at most once per table: for any interleaving of
\* concurrent fetches a table that was empty holds no row or exactly one copy
\* of its seed rows, never two rows of one seed.
C28_SeededAtMostOnce ==
    \A table \in SeededTables :
        db0[table] = {} =>
            /\ Cardinality(db[table]) \in {0, Cardinality(SeedNames(table))}
            /\ \A r1, r2 \in db[table] : r1.name = r2.name => r1 = r2

(***************************************************************************)
(* The Forecast page.  productId is selectedProductId, products the loaded *)
(* list, result the forecast the page shows; calls are the calls of        *)
(* calculateForecast its effect has started, each pending until its        *)
(* promise resolves.  pc is "loading" until loadData has set the products. *)
(***************************************************************************)
\* the page starts at most MaxCalls calls
MaxCalls == 4

\* useState(30), and the horizons of the select used here (of 7, 14, 30, 60)
INITIAL_HORIZON == 30

HorizonItems == {7, INITIAL_HORIZON}

\* loadForecast up to its await: a call is started when a product is selected
LoadForecast(selectedProductId, horizon) ==
    IF selectedProductId # ""
    THEN Append(calls, [productId |-> selectedProductId, horizonDays |-> horizon,
                        pending |-> TRUE])
    ELSE calls

InitPage ==
    /\ productId = ""
    /\ horizonDays = INITIAL_HORIZON
    /\ result = Undefined
    /\ products = <<>>
    /\ calls = <<>>
    /\ pc = "loading"
    /\ sales = <<Sale("p1", 5, Day(20000))>>
    /\ materials = <<Mentega, Telur>>
    /\ now = Day(20000) + 12
    /\ tzOffset = 0
    /\ safetyDays = Num(7)
    /\ points = <<>>
    /\ formData = EmptyForm
    /\ editingProduct = Undefined
    /\ getters = <<>>
    /\ updates = Undefined
    /\ NoHPPCall
    /\ NoStore

pageFrame == <<hppVars, storeVars, points, formData, editingProduct, getters, updates, materials, sales, now, tzOffset, safetyDays>>

\* loadData: the products are set and the first one selected; the effect runs
LoadData ==
    /\ pc = "loading"
    /\ \E loadedProducts \in {<<>>, StandardProducts} :
          /\ products' = loadedProducts
          /\ productId' = IF Len(loadedProducts) > 0 THEN loadedProducts[1].id ELSE productId
          /\ calls' = LoadForecast(productId', horizonDays)
    /\ pc' = "ready"
    /\ UNCHANGED <<pageFrame, horizonDays, result>>

\* onValueChange of the product select: the selection changes and the effect runs
SetSelectedProductId ==
    /\ Len(calls) < MaxCalls
    /\ \E id \in {products[i].id : i \in 1..Len(products)} :
          /\ id # productId
          /\ productId' = id
          /\ calls' = LoadForecast(id, horizonDays)
    /\ UNCHANGED <<pageFrame, products, horizonDays, pc, result>>

\* onValueChange of the horizon select
SetHorizonDays ==
    /\ Len(calls) < MaxCalls
    /\ \E horizon \in HorizonItems :
          /\ horizon # horizonDays
          /\ horizonDays' = horizon
          /\ calls' = LoadForecast(productId, horizon)
    /\ UNCHANGED <<pageFrame, products, productId, pc, result>>

\* the promise of a pending call resolves: setForecast(result)
SetForecast ==
    /\ \E i \in 1..Len(calls) :
          /\ calls[i].pending
          /\ result' = calculateForecast(calls[i].productId, calls[i].horizonDays,
                                         safetyDays, products, sales, materials, now, tzOffset)
          /\ calls' = [calls EXCEPT ![i].pending = FALSE]
    /\ UNCHANGED <<pageFrame, products, productId, horizonDays, pc>>

NextPage ==
    \/ LoadData
    \/ SetSelectedProductId
    \/ SetHorizonDays
    \/ SetForecast

SpecPage == InitPage /\ [][NextPage]_vars

\* C29: once every pending calculateForecast call has completed, the forecast
\* the page shows is the one computed for the selected product and horizon: the
\* result of an earlier selection resolving later never overwrites it.
C29_ShowsCurrentSelection ==
    (calls # <<>> /\ \A i \in 1..Len(calls) : ~calls[i].pending) =>
        /\ IsDefined(result)
        /\ result[1].productId = productId
        /\ result[1].horizon = horizonDays

(***************************************************************************)
(* updateProduct(id, updates): productId is the id, updates the fields to  *)
(* change, each optional.  The call awaits up to four requests, update,    *)
(* delete, insert and select, and each may fail; pc is the request the     *)
(* call awaits.  The ingredient rows of a product are kept with its row,   *)
(* as the select joins them.                                               *)
(***************************************************************************)
\* the ingredient lists a form submits for a product (the stored list of p1
\* among them)
IngredientUpdates ==
    {<<>>,
     <<[materialId |-> "m1", quantity |-> Num(250)]>>,
     <<[materialId |-> "m2", quantity |-> Num(3)], [materialId |-> "m1", quantity |-> Num(100)]>>}

UpdateChoices ==
    {[name |-> n, laborMinutes |-> lm, ingredients |-> ings] :
        n \in {Undefined, Some("Roti Manis")},
        lm \in {Undefined, Some(Num(45))},
        ings \in {Undefined} \cup {Some(l) : l \in IngredientUpdates}}

\* the row of the products table with this id, if any
ProductRow(table, id) ==
    IF \E r \in table : r.id = id THEN Some(CHOOSE r \in table : r.id = id) ELSE Undefined

\* the table with the row of this id replaced
WithRow(table, id, row) == {r \in table : r.id # id} \cup {row}

\* updates.ingredients.map(i => ({...})): the rows to insert
IngredientRows(ingredients) ==
    [j \in 1..Len(ingredients) |->
        [material_id |-> ingredients[j].materialId, quantity |-> ingredients[j].quantity]]

InitUpdate ==
    /\ db = [materials |-> {}, overheads |-> {}, labor_rates |-> {},
             products |-> StoredProducts, sales |-> {}]
    /\ db0 = db
    /\ op = "none"
    /\ productId \in {"p1", "p2", "px"}
    /\ updates \in UpdateChoices
    /\ pc = "update"
    /\ result = Undefined
    /\ products = <<>>
    /\ sales = <<>>
    /\ now = 0
    /\ tzOffset = 0
    /\ horizonDays = 0
    /\ safetyDays = Num(0)
    /\ materials = <<>>
    /\ points = <<>>
    /\ formData = EmptyForm
    /\ editingProduct = Undefined
    /\ getters = <<>>
    /\ calls = <<>>
    /\ NoHPPCall

updateFrame == <<hppVars, forecastVars, pageVars, materials, db0, op>>

\* the update of the products row: an error (no row of this id, or the request
\* fails) returns null; otherwise the given fields are written
UpdateRow ==
    /\ pc = "update"
    /\ \/ /\ db' = db
          /\ pc' = "done"
       \/ /\ IsDefined(ProductRow(db.products, productId))
          /\ LET row == ProductRow(db.products, productId)[1]
                 updated == [row EXCEPT !.name = Coalesce(updates.name, @),
                                        !.labor_minutes = Coalesce(updates.laborMinutes, @)]
             IN  db' = [db EXCEPT !.products = WithRow(@, productId, updated)]
          /\ pc' = IF IsDefined(updates.ingredients) THEN "delete" ELSE "select"
    /\ UNCHANGED <<updateFrame, result>>

\* the delete of the product's ingredient rows: its outcome is not read
DeleteIngredients ==
    /\ pc = "delete"
    /\ \/ LET row == ProductRow(db.products, productId)[1]
          IN  db' = [db EXCEPT !.products =
                        WithRow(@, productId, [row EXCEPT !.product_ingredients = <<>>])]
       \/ db' = db
    /\ pc' = IF Len(updates.ingredients[1]) > 0 THEN "insert" ELSE "select"
    /\ UNCHANGED <<updateFrame, result>>

\* the insert of the new ingredient rows: its outcome is not read
InsertIngredients ==
    /\ pc = "insert"
    /\ \/ LET row == ProductRow(db.products, productId)[1]
          IN  db' = [db EXCEPT !.products =
                        WithRow(@, productId,
                                [row EXCEPT !.product_ingredients =
                                    @ \o IngredientRows(updates.ingredients[1])])]
       \/ db' = db
    /\ pc' = "select"
    /\ UNCHANGED <<updateFrame, result>>

\* the select of the updated product: no data returns null, otherwise the
\* product is returned as stored
SelectUpdated ==
    /\ pc = "select"
    /\ \/ result' = Undefined
       \/ result' = Some(ProductsOf(<<ProductRow(db.products, productId)[1]>>)[1])
    /\ pc' = "done"
    /\ UNCHANGED <<updateFrame, db>>

NextUpdate ==
    \/ UpdateRow
    \/ DeleteIngredients
    \/ InsertIngredients
    \/ SelectUpdated

SpecUpdate == InitUpdate /\ [][NextUpdate]_vars

\* the ingredients stored for the product in a state of the database
StoredIngredients(database) ==
    ProductsOf(<<ProductRow(database.products, productId)[1]>>)[1].ingredients

\* C30: updateProduct with an ingredients list replaces the stored list
\* atomically: after the call the stored ingredients of the product are the
\* new list or the previous list, never the old ones deleted with the new ones
\* missing, and a non-null return value implies they are the requested ones.
C30_IngredientsReplacedAtomically ==
    (/\ pc = "done"
     /\ IsDefined(updates.ingredients)
     /\ IsDefined(ProductRow(db0.products, productId))) =>
        /\ StoredIngredients(db) \in {updates.ingredients[1], StoredIngredients(db0)}
        /\ IsDefined(result) => StoredIngredients(db) = updates.ingredients[1]

====
